---- MODULE Spec2Model ----
(***************************************************************************)
(* The centipede arcade simulation of centipede.py: the shared GameState,  *)
(* the two agents (ShooterAgent, CentipedeAgent), update_game_state and    *)
(* the driver loop play_game_with_agents.                                  *)
(*                                                                         *)
(* A Position is a record [x, y]; a Direction is one of the strings        *)
(* "LEFT", "RIGHT", "DOWN"; a board cell holds the name of a GameEntity.   *)
(* Python lists are sequences (1-based here, 0-based in the source).       *)
(***************************************************************************)
EXTENDS Integers, Sequences, FiniteSets, TLC

\* ------------------------------------------------------------------ bounds
\* Board size handed to initialize_game in Spec and SpecCalls.
BoardWidth == 8
BoardHeight == 5
\* Number of outcomes of the 20 mushroom draws that Init enumerates.
MushroomSeeds == 1
\* Number of agent decisions a caller may request on the final state.
MaxPostCalls == 2

\* ------------------------------------------------------- program constants
\* initialize_game's default width and height
DefaultWidth == 20
DefaultHeight == 20
NumSegments == 8
NumMushrooms == 20
MushroomTop == 2
MushroomBottomMargin == 3
ScorePerSegment == 10
CooldownTicks == 3

VARIABLES
    width,                      \* len(state['board'][0])
    height,                     \* len(state['board'])
    board,                      \* state['board'][y][x]
    score,                      \* state['score']
    player_pos,                 \* state['player_pos']
    centipede_segments,         \* state['centipede_segments'], head first
    mushrooms,                  \* state['mushrooms']
    bullets,                    \* state['bullets'], oldest first
    game_over,                  \* state['game_over']
    direction,                  \* state['direction']
    shooter_strategy,           \* ShooterAgent.strategy
    centipede_strategy,         \* CentipedeAgent.strategy
    direction_change_cooldown,  \* CentipedeAgent.direction_change_cooldown
    pc,                         \* position of play_game_with_agents
    winner,                     \* what play_game_with_agents printed at exit
    post_calls,                 \* agent decisions requested after the game ended
    prev,                       \* ghost: the state on entry of the last operation
    hist                        \* ghost: the last target, whether the centipede agent
                                \* turned in its last decision, decisions since it did

vars == <<width, height, board, score, player_pos, centipede_segments, mushrooms, bullets,
          game_over, direction, shooter_strategy, centipede_strategy,
          direction_change_cooldown, pc, winner, post_calls, prev, hist>>

\* width = len(board[0]) and height = len(board)
Width == width
Height == height

\* ------------------------------------------------------------ data model
Pos(px, py) == [x |-> px, y |-> py]

\* Direction.value
DirVec(d) ==
    CASE d = "LEFT" -> Pos(-1, 0)
      [] d = "RIGHT" -> Pos(1, 0)
      [] d = "DOWN" -> Pos(0, 1)

\* Position.move
Move(p, d) == Pos(p.x + DirVec(d).x, p.y + DirVec(d).y)

Abs(n) == IF n < 0 THEN -n ELSE n

Max(a, b) == IF a >= b THEN a ELSE b

Min(a, b) == IF a <= b THEN a ELSE b

\* The reversal both agents and the engine write: LEFT if RIGHT else RIGHT.
Reverse(d) == IF d = "RIGHT" THEN "LEFT" ELSE "RIGHT"

\* del list[i]
RemoveAt(s, i) == [k \in 1..(Len(s) - 1) |-> IF k < i THEN s[k] ELSE s[k + 1]]

\* ------------------------------------------------------------- the board
\* initialize_board
initialize_board == [y \in 0..(Height - 1) |-> [x \in 0..(Width - 1) |-> "EMPTY"]]

\* for p in positions: board[p.y][p.x] = entity
Stamp(b, positions, entity) ==
    [y \in 0..(Height - 1) |-> [x \in 0..(Width - 1) |->
        IF \E i \in 1..Len(positions) : positions[i] = Pos(x, y)
        THEN entity ELSE b[y][x]]]

\* ------------------------------------------------------------ ShooterAgent
predict_centipede_position(segs, dir, player) ==
    IF Len(segs) = 0 THEN player
    ELSE LET head == segs[1] IN
         IF dir = "RIGHT" /\ head.x < Width - 1 THEN Pos(head.x + 1, head.y)
         ELSE IF dir = "LEFT" /\ head.x > 0 THEN Pos(head.x - 1, head.y)
         ELSE Pos(head.x, head.y + 1)

\* the local `target` of ShooterAgent.make_decision
Target(strategy, segs, dir, player) ==
    IF strategy = "predictive" THEN predict_centipede_position(segs, dir, player)
    ELSE segs[1]

move_player(player, d) ==
    LET new_pos == Move(player, d) IN
    IF 0 <= new_pos.x /\ new_pos.x < Width /\ 0 <= new_pos.y /\ new_pos.y < Height
    THEN new_pos ELSE player

\* shoot, with the list replaced instead of appended to
shoot_Replace(bs, player) == <<Pos(player.x, player.y - 1)>>

\* shoot, with the bullet created on the player's own row
shoot_AtPlayerRow(bs, player) == Append(bs, Pos(player.x, player.y))

shoot(bs, player) == Append(bs, Pos(player.x, player.y - 1))

\* make_decision's move towards the x-position of the target
ShooterMove(player, target) ==
    IF player.x < target.x THEN move_player(player, "RIGHT")
    ELSE IF player.x > target.x THEN move_player(player, "LEFT")
    ELSE player

\* make_decision's shot, fired only when exactly aligned
ShooterFire_AlignedOnly(bs, player, target) ==
    IF Abs(player.x - target.x) = 0 THEN shoot(bs, player) ELSE bs

\* make_decision's shot, with shoot called twice
ShooterFire_Double(bs, player, target) ==
    IF Abs(player.x - target.x) <= 1 THEN shoot(shoot(bs, player), player) ELSE bs

\* make_decision's shot: if aligned with the target or close enough
ShooterFire(bs, player, target) ==
    IF Abs(player.x - target.x) <= 1 THEN shoot(bs, player) ELSE bs

\* ---------------------------------------------------------- CentipedeAgent
\* One bullet qualifies as a threat to the head.
Threat(bullet, head) == Abs(bullet.x - head.x) <= 1 /\ bullet.y < head.y

\* The loop over state['bullets'], from bullet k on; r = [direction, cooldown].
RECURSIVE ThreatLoop(_, _, _, _, _)
ThreatLoop(bs, k, head, current_direction, r) ==
    IF k > Len(bs) THEN r
    ELSE IF Threat(bs[k], head) /\ r.cooldown <= 0
         THEN ThreatLoop(bs, k + 1, head, current_direction,
                         [direction |-> Reverse(current_direction),
                          cooldown |-> CooldownTicks])
         ELSE ThreatLoop(bs, k + 1, head, current_direction, r)

\* The decay: max(0, cooldown - 1)
Decay(cd) == Max(0, cd - 1)

\* The random change of direction without the cooldown test.
RandomEvasion_NoCooldown(strategy, low, current_direction, r) ==
    IF strategy = "evasive" /\ low
    THEN [direction |-> Reverse(current_direction), cooldown |-> CooldownTicks]
    ELSE r

\* The random change of direction; low is random.random() < 0.1.
RandomEvasion(strategy, low, current_direction, r) ==
    IF strategy = "evasive" /\ low /\ r.cooldown <= 0
    THEN [direction |-> Reverse(current_direction), cooldown |-> CooldownTicks]
    ELSE r

\* The outcomes of random.random() < 0.1; only an evasive agent draws.
Rolls(strategy) == IF strategy = "evasive" THEN BOOLEAN ELSE {FALSE}

\* CentipedeAgent.make_decision with a non-empty centipede.
CentipedeDecision(strategy, low, bs, segs, dir, cd) ==
    LET afterLoop == ThreatLoop(bs, 1, segs[1], dir, [direction |-> dir, cooldown |-> cd])
        decayed == [afterLoop EXCEPT !.cooldown = Decay(afterLoop.cooldown)]
    IN  RandomEvasion(strategy, low, dir, decayed)

\* -------------------------------------------------------- initialize_game
\* The player starts at the bottom centre.
InitPlayer == Pos(Width \div 2, Height - 1)

\* [Position(i, 0) for i in range(8)]
InitSegments == [i \in 1..NumSegments |-> Pos(i - 1, 0)]

\* One outcome of the 20 draws x = randint(0, width - 1), y = randint(2, height - 3):
\* every draw lies in that range, and draws may repeat a cell.
InitMushrooms(seed) ==
    [i \in 1..NumMushrooms |->
        Pos((seed + i * (seed + 1)) % Width,
            MushroomTop + ((i * (seed + 1)) % (Height - MushroomBottomMargin - MushroomTop + 1)))]

\* The board as initialize_game leaves it: player, centipede, then mushrooms.
InitBoard(mush) ==
    Stamp(Stamp(Stamp(initialize_board, <<InitPlayer>>, "PLAYER"),
                InitSegments, "CENTIPEDE"), mush, "MUSHROOM")

\* ------------------------------------------------------- update_game_state
\* The inner loop without its break: the last segment at p wins.
RECURSIVE FirstHit_NoBreak(_, _, _)
FirstHit_NoBreak(segs, p, i) ==
    IF i > Len(segs) THEN 0
    ELSE LET later == FirstHit_NoBreak(segs, p, i + 1) IN
         IF later > 0 THEN later
         ELSE IF p.x = segs[i].x /\ p.y = segs[i].y THEN i ELSE 0

\* The inner loop over enumerate(centipede_segments): the index of the first
\* segment at p, scanning from i, or 0 when the loop ends without a break.
RECURSIVE FirstHit(_, _, _)
FirstHit(segs, p, i) ==
    IF i > Len(segs) THEN 0
    ELSE IF p.x = segs[i].x /\ p.y = segs[i].y THEN i
    ELSE FirstHit(segs, p, i + 1)

\* One iteration with the test new_pos.y >= -1: a bullet above the top is kept.
BulletStep_KeepsAboveTop(bullet, r) ==
    LET new_pos == Pos(bullet.x, bullet.y - 1) IN
    IF new_pos.y >= -1
    THEN LET i == FirstHit(r.segs, new_pos, 1) IN
         IF i > 0
         THEN [segs |-> RemoveAt(r.segs, i),
               mushrooms |-> Append(r.mushrooms, Pos(r.segs[i].x, r.segs[i].y)),
               score |-> r.score + ScorePerSegment,
               new_bullets |-> r.new_bullets]
         ELSE [r EXCEPT !.new_bullets = Append(r.new_bullets, new_pos)]
    ELSE r

\* One iteration that forgets to turn the hit segment into a mushroom.
BulletStep_NoMushroom(bullet, r) ==
    LET new_pos == Pos(bullet.x, bullet.y - 1) IN
    IF new_pos.y >= 0
    THEN LET i == FirstHit(r.segs, new_pos, 1) IN
         IF i > 0
         THEN [segs |-> RemoveAt(r.segs, i),
               mushrooms |-> r.mushrooms,
               score |-> r.score + ScorePerSegment,
               new_bullets |-> r.new_bullets]
         ELSE [r EXCEPT !.new_bullets = Append(r.new_bullets, new_pos)]
    ELSE r

\* One iteration of the loop over state['bullets'];
\* r = [segs, mushrooms, score, new_bullets].
BulletStep(bullet, r) ==
    LET new_pos == Pos(bullet.x, bullet.y - 1) IN
    IF new_pos.y >= 0
    THEN LET i == FirstHit(r.segs, new_pos, 1) IN
         IF i > 0
         THEN [segs |-> RemoveAt(r.segs, i),
               mushrooms |-> Append(r.mushrooms, Pos(r.segs[i].x, r.segs[i].y)),
               score |-> r.score + ScorePerSegment,
               new_bullets |-> r.new_bullets]
         ELSE [r EXCEPT !.new_bullets = Append(r.new_bullets, new_pos)]
    ELSE r

\* The loop over state['bullets'], oldest first, from bullet k on.
RECURSIVE UpdateBullets(_, _, _)
UpdateBullets(bs, k, r) ==
    IF k > Len(bs) THEN r
    ELSE UpdateBullets(bs, k + 1, BulletStep(bs[k], r))

\* The head runs into the wall it is heading for.
EdgeHit(head, dir) ==
    (head.x = 0 /\ dir = "LEFT") \/ (head.x = Width - 1 /\ dir = "RIGHT")

\* Move only the head down.
Descend_HeadOnly(segs) ==
    [i \in 1..Len(segs) |-> IF i = 1 THEN Pos(segs[i].x, segs[i].y + 1) ELSE segs[i]]

\* Move all segments down.
Descend(segs) == [i \in 1..Len(segs) |-> Pos(segs[i].x, segs[i].y + 1)]

\* Move centipede in place: segment i takes the place segment i-1 has just
\* moved to, so the whole body lands on the head's new cell.
Follow_Cascaded(segs, d) == [i \in 1..Len(segs) |-> Move(segs[1], d)]

\* Move centipede: the head steps, segment i takes the place of segment i-1.
Follow(segs, d) ==
    [i \in 1..Len(segs) |-> IF i = 1 THEN Move(segs[1], d) ELSE segs[i - 1]]

\* The centipede movement with the reversal but without the descent.
UpdateCentipede_NoDescent(segs, dir) ==
    IF Len(segs) = 0 THEN [segs |-> segs, direction |-> dir]
    ELSE LET new_direction == IF EdgeHit(segs[1], dir) THEN Reverse(dir) ELSE dir
         IN  [segs |-> Follow(segs, new_direction), direction |-> new_direction]

\* The centipede movement of update_game_state; result [segs, direction].
UpdateCentipede(segs, dir) ==
    IF Len(segs) = 0 THEN [segs |-> segs, direction |-> dir]
    ELSE LET head == segs[1]
             hit == EdgeHit(head, dir)
             new_direction == IF hit THEN Reverse(dir) ELSE dir
             lowered == IF hit THEN Descend(segs) ELSE segs
         IN  [segs |-> Follow(lowered, new_direction), direction |-> new_direction]

\* The board rebuilt without clearing the previous one.
RebuildBoard_NoClear(mush, bs, segs, player) ==
    Stamp(Stamp(Stamp(Stamp(board, mush, "MUSHROOM"),
                      bs, "BULLET"), segs, "CENTIPEDE"), <<player>>, "PLAYER")

\* Clear the board, then place mushrooms, bullets, centipede, player.
RebuildBoard(mush, bs, segs, player) ==
    Stamp(Stamp(Stamp(Stamp(initialize_board, mush, "MUSHROOM"),
                      bs, "BULLET"), segs, "CENTIPEDE"), <<player>>, "PLAYER")

\* The game over check without the test for an empty centipede.
GameOverCheck_NoEmptyTest(segs, over) ==
    \/ over
    \/ \E i \in 1..Len(segs) : segs[i].y >= Height - 1

\* Check game over conditions.
GameOverCheck(segs, over) ==
    \/ over
    \/ \E i \in 1..Len(segs) : segs[i].y >= Height - 1
    \/ Len(segs) = 0

\* ------------------------------------------------------------ the driver
\* The GameState, and the centipede agent's counter, as a record.
Snapshot(op) ==
    [op |-> op, board |-> board, score |-> score, player_pos |-> player_pos,
     centipede_segments |-> centipede_segments, mushrooms |-> mushrooms,
     bullets |-> bullets, game_over |-> game_over, direction |-> direction,
     cooldown |-> direction_change_cooldown, since |-> hist.since, low |-> FALSE]

\* The state initialize_game(w, h) returns, with agents of the given strategies.
InitGame(w, h, shooters, centipedes) ==
    /\ width = w
    /\ height = h
    /\ \E seed \in 0..(MushroomSeeds - 1) :
          /\ mushrooms = InitMushrooms(seed)
          /\ board = InitBoard(InitMushrooms(seed))
    /\ score = 0
    /\ player_pos = InitPlayer
    /\ centipede_segments = InitSegments
    /\ bullets = <<>>
    /\ game_over = FALSE
    /\ direction = "RIGHT"
    /\ shooter_strategy \in shooters
    /\ centipede_strategy \in centipedes
    /\ direction_change_cooldown = 0
    /\ pc = "shooter"
    /\ winner = "none"
    /\ post_calls = 0
    /\ prev = [op |-> "init"]
    /\ hist = [target |-> InitPlayer, turned |-> FALSE, since |-> CooldownTicks]

Init == InitGame(BoardWidth, BoardHeight, {"predictive", "reactive"}, {"evasive", "passive"})

\* ShooterAgent.make_decision on the current state.
ShooterCall ==
    /\ prev' = Snapshot("shooter")
    /\ IF Len(centipede_segments) = 0
       THEN UNCHANGED <<player_pos, bullets, hist>>
       ELSE LET target == Target(shooter_strategy, centipede_segments, direction, player_pos)
                moved == ShooterMove(player_pos, target)
            IN  /\ player_pos' = moved
                /\ bullets' = ShooterFire(bullets, moved, target)
                /\ hist' = [hist EXCEPT !.target = target]
    /\ UNCHANGED <<width, height, board, score, centipede_segments, mushrooms, game_over, direction,
                   shooter_strategy, centipede_strategy, direction_change_cooldown, winner>>

\* CentipedeAgent.make_decision on the current state.
CentipedeCall ==
    /\ IF Len(centipede_segments) = 0
       THEN /\ prev' = Snapshot("centipede")
            /\ UNCHANGED <<direction, direction_change_cooldown, hist>>
       ELSE \E low \in Rolls(centipede_strategy) :
               LET r == CentipedeDecision(centipede_strategy, low, bullets,
                                          centipede_segments, direction,
                                          direction_change_cooldown)
                   turned == r.direction # direction
               IN  /\ direction' = r.direction
                   /\ direction_change_cooldown' = r.cooldown
                   /\ prev' = [Snapshot("centipede") EXCEPT !.low = low]
                   /\ hist' = [hist EXCEPT !.turned = turned,
                                           !.since = IF turned THEN 0
                                                     ELSE Min(hist.since + 1, CooldownTicks)]
    /\ UNCHANGED <<width, height, board, score, player_pos, centipede_segments, mushrooms, bullets,
                   game_over, shooter_strategy, centipede_strategy, winner>>

\* update_game_state on the current state.
UpdateCall ==
    LET shot == UpdateBullets(bullets, 1,
                    [segs |-> centipede_segments, mushrooms |-> mushrooms,
                     score |-> score, new_bullets |-> <<>>])
        moved == UpdateCentipede(shot.segs, direction)
    IN  /\ prev' = Snapshot("update")
        /\ score' = shot.score
        /\ mushrooms' = shot.mushrooms
        /\ bullets' = shot.new_bullets
        /\ centipede_segments' = moved.segs
        /\ direction' = moved.direction
        /\ board' = RebuildBoard(shot.mushrooms, shot.new_bullets, moved.segs, player_pos)
        /\ game_over' = GameOverCheck(moved.segs, game_over)
        /\ UNCHANGED <<width, height, player_pos, shooter_strategy, centipede_strategy,
                       direction_change_cooldown, winner, hist>>

\* while not state['game_over']: state = shooter_agent.make_decision(state)
ShooterTurn ==
    /\ pc = "shooter"
    /\ ShooterCall
    /\ pc' = "centipede"
    /\ UNCHANGED post_calls

\* state = centipede_agent.make_decision(state)
CentipedeTurn ==
    /\ pc = "centipede"
    /\ CentipedeCall
    /\ pc' = "update"
    /\ UNCHANGED post_calls

\* state = update_game_state(state), then the loop test
UpdateTurn ==
    /\ pc = "update"
    /\ UpdateCall
    /\ pc' = IF game_over' THEN "report" ELSE "shooter"
    /\ UNCHANGED post_calls

\* The report with its test inverted.
Report_Inverted ==
    /\ pc = "report"
    /\ winner' = IF Len(centipede_segments) = 0 THEN "centipede" ELSE "shooter"
    /\ pc' = "done"
    /\ prev' = Snapshot("report")
    /\ UNCHANGED <<width, height, board, score, player_pos, centipede_segments,
                   mushrooms, bullets, game_over, direction, shooter_strategy,
                   centipede_strategy, direction_change_cooldown, post_calls, hist>>

\* After the loop: "Shooter wins!" or "Centipede wins!"
Report ==
    /\ pc = "report"
    /\ winner' = IF Len(centipede_segments) = 0 THEN "shooter" ELSE "centipede"
    /\ pc' = "done"
    /\ prev' = Snapshot("report")
    /\ UNCHANGED <<width, height, board, score, player_pos, centipede_segments,
                   mushrooms, bullets, game_over, direction, shooter_strategy,
                   centipede_strategy, direction_change_cooldown, post_calls, hist>>

Next == ShooterTurn \/ CentipedeTurn \/ UpdateTurn \/ Report

Spec == Init /\ [][Next]_vars

\* play_game_with_agents as written: initialize_game() with its default size.
\* The centipede agent is passive.
InitDefault == InitGame(DefaultWidth, DefaultHeight, {"predictive", "reactive"}, {"passive"})

\* The loop moves on: while the driver has not finished, its position changes.
\* (Every step of Next changes pc, and Next can step exactly when pc # "done".)
Advance ==
    /\ pc # "done"
    /\ pc' \in {"shooter", "centipede", "update", "report", "done"}
    /\ pc' # pc

SpecDefault == InitDefault /\ [][Next]_vars /\ WF_pc(Advance)

\* A caller hands the final state to ShooterAgent.make_decision once more.
ShooterAfterGame ==
    /\ pc = "done"
    /\ post_calls < MaxPostCalls
    /\ post_calls' = post_calls + 1
    /\ ShooterCall
    /\ UNCHANGED pc

\* A caller hands the final state to CentipedeAgent.make_decision once more.
CentipedeAfterGame ==
    /\ pc = "done"
    /\ post_calls < MaxPostCalls
    /\ post_calls' = post_calls + 1
    /\ CentipedeCall
    /\ UNCHANGED pc

NextCalls ==
    ShooterTurn \/ CentipedeTurn \/ UpdateTurn \/ Report
        \/ ShooterAfterGame \/ CentipedeAfterGame

\* The driver, followed by agent decisions on the state it ended in.
SpecCalls == Init /\ [][NextCalls]_vars

\* ------------------------------------------------------------ properties
\* The last operation was update_game_state: the state is a tick boundary.
AfterUpdate == prev.op = "update"

InBoard(p) == 0 <= p.x /\ p.x < Width /\ 0 <= p.y /\ p.y < Height

NoDuplicates(s) == \A i, j \in 1..Len(s) : i # j => s[i] # s[j]

\* Number of segments the last update removed.
Removed == Len(prev.centipede_segments) - Len(centipede_segments)

\* C1: after every update no two entries of centipede_segments hold the same
\* (x, y) position.
C1_SegmentsUnique == AfterUpdate => NoDuplicates(centipede_segments)

\* C2: after every tick the player, every segment, every mushroom and every
\* bullet lies on the board, and a bullet whose advanced position has y < 0
\* is removed in that same update: the bullets kept are at most the bullets
\* that were below row 0, and none of them is above row 0.
C2_InBounds ==
    AfterUpdate =>
        /\ InBoard(player_pos)
        /\ \A i \in 1..Len(centipede_segments) : InBoard(centipede_segments[i])
        /\ \A i \in 1..Len(mushrooms) : InBoard(mushrooms[i])
        /\ \A i \in 1..Len(bullets) : InBoard(bullets[i])
        /\ Len(bullets) <=
              Cardinality({k \in 1..Len(prev.bullets) : prev.bullets[k].y - 1 >= 0})

\* C2 witness: an update in which a bullet left the board through the top
\* while the centipede, mushrooms and other bullets were on the board.
C2_Witness ==
    /\ AfterUpdate
    /\ \E k \in 1..Len(prev.bullets) : prev.bullets[k].y = 0
    /\ Len(bullets) > 0
    /\ Len(centipede_segments) > 0

\* C3: after every update game_over is true iff centipede_segments is empty or
\* some segment has y >= height-1; it is false initially, and no operation
\* sets it back to false.
C3_GameOver ==
    /\ AfterUpdate =>
          (game_over <=> (\/ Len(centipede_segments) = 0
                          \/ \E i \in 1..Len(centipede_segments) :
                                centipede_segments[i].y >= Height - 1))
    /\ prev.op = "init" => ~game_over
    /\ prev.op # "init" => (prev.game_over => game_over)

\* C3 witness: the update that removed the last segment set game_over.
C3_Witness ==
    /\ AfterUpdate
    /\ Len(prev.centipede_segments) > 0
    /\ Len(centipede_segments) = 0
    /\ ~prev.game_over
    /\ game_over

\* C4: an update adds 10 to the score and one mushroom per segment it removed,
\* agent decisions leave the score alone, the score never decreases; so
\* score = 10 * (8 - segments left) and mushrooms = 20 + (8 - segments left).
C4_Score ==
    /\ AfterUpdate =>
          /\ Removed >= 0
          /\ score = prev.score + ScorePerSegment * Removed
          /\ Len(mushrooms) = Len(prev.mushrooms) + Removed
    /\ prev.op \in {"shooter", "centipede"} => score = prev.score
    /\ prev.op # "init" => score >= prev.score
    /\ score = ScorePerSegment * (NumSegments - Len(centipede_segments))
    /\ Len(mushrooms) = NumMushrooms + (NumSegments - Len(centipede_segments))

\* C4 witness: an update that removed a segment.
C4_Witness == AfterUpdate /\ Removed > 0 /\ score > prev.score

\* The elements of s at the indices in A, in order.
Pick(s, A) ==
    LET idx == SelectSeq([i \in 1..Len(s) |-> i], LAMBDA i : i \in A)
    IN  [j \in 1..Len(idx) |-> s[idx[j]]]

Least(A) == CHOOSE i \in A : \A j \in A : i <= j

\* What the bullets P, taken oldest first, do to the segments S, by segment
\* index: alive[k] are the indices left after the first k bullets, victim[k]
\* the index bullet k removes (0: none).
BulletOutcome(P, S) ==
    LET adv(k) == Pos(P[k].x, P[k].y - 1)
        Cands(k, A) == {i \in A : S[i] = adv(k)}
        Victim(k, A) ==
            IF adv(k).y >= 0 /\ Cands(k, A) # {} THEN Least(Cands(k, A)) ELSE 0
        alive[k \in 0..Len(P)] ==
            IF k = 0 THEN 1..Len(S) ELSE alive[k - 1] \ {Victim(k, alive[k - 1])}
    IN  [alive |-> alive[Len(P)],
         victim |-> [k \in 1..Len(P) |-> Victim(k, alive[k - 1])],
         adv |-> [k \in 1..Len(P) |-> adv(k)]]

\* C5: bullets are processed oldest first, each against the segments the
\* earlier bullets left: a bullet advances one row up; above row 0 it is
\* dropped; at a cell holding a remaining segment it removes the lowest-index
\* segment there, adds a mushroom at that cell and 10 to the score and is not
\* kept; otherwise it is kept at its new cell. No bullet removes more than one
\* segment, and no bullet is left at a cell where a bullet hit.
C5_BulletResolution ==
    AfterUpdate =>
        LET o == BulletOutcome(prev.bullets, prev.centipede_segments)
            n == Len(prev.bullets)
            hits == {k \in 1..n : o.victim[k] > 0}
            kept == {k \in 1..n : o.victim[k] = 0 /\ o.adv[k].y >= 0}
            left == Pick(prev.centipede_segments, o.alive)
        IN  /\ bullets = Pick(o.adv, kept)
            /\ mushrooms = prev.mushrooms \o Pick(o.adv, hits)
            /\ score = prev.score + ScorePerSegment * Cardinality(hits)
            /\ centipede_segments = UpdateCentipede(left, prev.direction).segs
            /\ Removed = Cardinality(hits)
            /\ \A k \in hits : \A i \in 1..Len(bullets) : bullets[i] # o.adv[k]

\* C5 witness: an update in which a bullet hit a cell that held two segments
\* (so that the lowest index decides) while another bullet was kept.
C5_Witness ==
    /\ AfterUpdate
    /\ Removed = 1
    /\ Len(bullets) > 0
    /\ \E k \in 1..Len(prev.bullets) :
          LET c == Pos(prev.bullets[k].x, prev.bullets[k].y - 1) IN
          Cardinality({i \in 1..Len(prev.centipede_segments) :
                          prev.centipede_segments[i] = c}) >= 2

\* The segments the last update's bullet resolution left, before the move.
LeftByBullets ==
    Pick(prev.centipede_segments,
         BulletOutcome(prev.bullets, prev.centipede_segments).alive)

\* C6: in an update with a non-empty centipede (after bullet resolution), if
\* the head is at x = 0 heading LEFT or at x = width-1 heading RIGHT, the
\* direction is flipped, every remaining segment's y is one more than before
\* and the head has moved one cell away from that edge; otherwise direction
\* is unchanged and the head moves one cell in it with its y unchanged.
C6_EdgeReversal ==
    (AfterUpdate /\ Len(LeftByBullets) > 0) =>
        LET S == LeftByBullets
            head == S[1]
            d == prev.direction
        IN  /\ Len(centipede_segments) = Len(S)
            /\ IF (head.x = 0 /\ d = "LEFT") \/ (head.x = Width - 1 /\ d = "RIGHT")
               THEN /\ direction = (IF d = "LEFT" THEN "RIGHT" ELSE "LEFT")
                    /\ \A i \in 1..Len(S) : centipede_segments[i].y = S[i].y + 1
                    /\ centipede_segments[1].x = (IF head.x = 0 THEN 1 ELSE Width - 2)
               ELSE /\ direction = d
                    /\ centipede_segments[1].y = head.y
                    /\ centipede_segments[1].x =
                          (IF d = "LEFT" THEN head.x - 1 ELSE head.x + 1)

\* C6 witness: the head was at x = 0 heading LEFT, with a body behind it, and
\* the update turned it RIGHT.
C6_Witness ==
    /\ AfterUpdate
    /\ Len(LeftByBullets) >= 2
    /\ LeftByBullets[1].x = 0
    /\ prev.direction = "LEFT"
    /\ direction = "RIGHT"

\* The target ShooterAgent chose in its last decision.
LastTarget ==
    IF shooter_strategy = "predictive"
    THEN LET head == prev.centipede_segments[1] IN
         IF prev.direction = "RIGHT" /\ head.x < Width - 1 THEN Pos(head.x + 1, head.y)
         ELSE IF prev.direction = "LEFT" /\ head.x > 0 THEN Pos(head.x - 1, head.y)
         ELSE Pos(head.x, head.y + 1)
    ELSE prev.centipede_segments[1]

\* C7: ShooterAgent.make_decision with a non-empty centipede moves the player
\* exactly one cell towards target.x (none if equal), never changes player.y
\* and never leaves the board; then it appends exactly one bullet at
\* (player.x, player.y-1) iff |player.x - target.x| <= 1 after the move.
C7_ShooterDecision ==
    (prev.op = "shooter" /\ Len(prev.centipede_segments) > 0) =>
        LET t == LastTarget
            p == prev.player_pos
        IN  /\ player_pos.y = p.y
            /\ InBoard(player_pos)
            /\ p.x < t.x => player_pos.x = p.x + 1
            /\ p.x > t.x => player_pos.x = p.x - 1
            /\ p.x = t.x => player_pos.x = p.x
            /\ IF player_pos.x - t.x \in {-1, 0, 1}
               THEN bullets = prev.bullets \o <<Pos(player_pos.x, player_pos.y - 1)>>
               ELSE bullets = prev.bullets

\* C7 witness: the player was aligned with the target: it fired and did not move.
C7_Witness ==
    /\ prev.op = "shooter"
    /\ Len(prev.centipede_segments) > 0
    /\ prev.player_pos.x = LastTarget.x
    /\ player_pos = prev.player_pos
    /\ Len(bullets) = Len(prev.bullets) + 1

Occupies(s, x, y) == \E i \in 1..Len(s) : s[i].x = x /\ s[i].y = y

\* C8: after every update the board is the projection of the entity lists
\* with priority player > centipede segment > bullet > mushroom > empty.
C8_BoardProjection ==
    AfterUpdate =>
        \A y \in 0..(Height - 1) : \A x \in 0..(Width - 1) :
            board[y][x] =
                IF player_pos.x = x /\ player_pos.y = y THEN "PLAYER"
                ELSE IF Occupies(centipede_segments, x, y) THEN "CENTIPEDE"
                ELSE IF Occupies(bullets, x, y) THEN "BULLET"
                ELSE IF Occupies(mushrooms, x, y) THEN "MUSHROOM"
                ELSE "EMPTY"

\* C8 witness: after an update one cell holds a segment and a mushroom, another
\* a bullet and a mushroom, and a cell that showed something before is empty.
C8_Witness ==
    /\ AfterUpdate
    /\ \E y \in 0..(Height - 1) : \E x \in 0..(Width - 1) :
          Occupies(centipede_segments, x, y) /\ Occupies(mushrooms, x, y)
    /\ \E y \in 0..(Height - 1) : \E x \in 0..(Width - 1) :
          Occupies(bullets, x, y) /\ Occupies(mushrooms, x, y)
    /\ \E y \in 0..(Height - 1) : \E x \in 0..(Width - 1) :
          prev.board[y][x] # "EMPTY" /\ board[y][x] = "EMPTY"

\* C9: each tick runs the shooter's decision, the centipede's decision and the
\* update in that order; none of them runs once game_over is true; at exit the
\* shooter is reported iff centipede_segments is empty, and otherwise the
\* centipede, and then some segment is on the bottom row.
C9_Driver ==
    /\ prev.op = "shooter" => pc = "centipede"
    /\ prev.op = "centipede" => pc = "update"
    /\ pc = "centipede" => prev.op = "shooter"
    /\ pc = "update" => prev.op = "centipede"
    /\ pc = "shooter" => prev.op \in {"init", "update"}
    /\ prev.op \in {"shooter", "centipede", "update"} => ~prev.game_over
    /\ (prev.op = "update" /\ game_over) => pc = "report"
    /\ (pc = "done") <=> (winner # "none")
    /\ pc = "done" =>
          /\ game_over
          /\ winner = "shooter" <=> Len(centipede_segments) = 0
          /\ winner = "centipede" <=> Len(centipede_segments) > 0
          /\ winner = "centipede" =>
                \E i \in 1..Len(centipede_segments) :
                    centipede_segments[i].y = Height - 1

\* C9 witness: the last segment was removed and the driver reported the shooter.
C9_Witness == pc = "done" /\ winner = "shooter" /\ Len(centipede_segments) = 0

\* The GameState fields, other than those named, are as the last operation
\* found them.
SameBut(fields) ==
    /\ "board" \in fields \/ board = prev.board
    /\ "score" \in fields \/ score = prev.score
    /\ "player_pos" \in fields \/ player_pos = prev.player_pos
    /\ "centipede_segments" \in fields \/ centipede_segments = prev.centipede_segments
    /\ "mushrooms" \in fields \/ mushrooms = prev.mushrooms
    /\ "bullets" \in fields \/ bullets = prev.bullets
    /\ "game_over" \in fields \/ game_over = prev.game_over
    /\ "direction" \in fields \/ direction = prev.direction
    /\ "cooldown" \in fields \/ direction_change_cooldown = prev.cooldown

\* C10: ShooterAgent.make_decision changes nothing but player_pos and bullets
\* (bullets only by appending), CentipedeAgent.make_decision nothing but
\* direction and its cooldown; with an empty centipede both leave the whole
\* state and the cooldown unchanged.
C10_AgentFrame ==
    /\ prev.op = "shooter" =>
          /\ SameBut({"player_pos", "bullets"})
          /\ Len(bullets) >= Len(prev.bullets)
          /\ SubSeq(bullets, 1, Len(prev.bullets)) = prev.bullets
    /\ prev.op = "centipede" => SameBut({"direction", "cooldown"})
    /\ (prev.op \in {"shooter", "centipede"} /\ Len(prev.centipede_segments) = 0) =>
          SameBut({})

\* C10 witness: the centipede agent decided on a state with no segments left
\* while its cooldown was running and bullets were in flight.
C10_Witness ==
    /\ prev.op = "centipede"
    /\ Len(prev.centipede_segments) = 0
    /\ prev.cooldown > 0
    /\ Len(prev.bullets) > 0

\* The entities of a state, player first, as one list of cells.
Cells == <<player_pos>> \o centipede_segments \o mushrooms

\* C12: every state initialize_game returns has all entities on the board and
\* on pairwise distinct cells (a configuration whose placements overlap,
\* two mushrooms drawn on one cell included, is refused instead).
C12_InitValid ==
    prev.op = "init" =>
        /\ \A i \in 1..Len(Cells) : InBoard(Cells[i])
        /\ NoDuplicates(Cells)

\* The segments the last update moved: those its bullets left, lowered by one
\* row when the head ran into the wall.
BeforeMove ==
    LET S == LeftByBullets IN
    IF (S[1].x = 0 /\ prev.direction = "LEFT")
          \/ (S[1].x = Width - 1 /\ prev.direction = "RIGHT")
    THEN [i \in 1..Len(S) |-> Pos(S[i].x, S[i].y + 1)]
    ELSE S

\* C13: after the centipede move every trailing segment i > 0 is where
\* segment i-1 was before the move (after bullet resolution and descent), the
\* head is one cell from its old place in the resulting direction, and the
\* move neither adds, removes nor reorders segments.
C13_FollowTheLeader ==
    (AfterUpdate /\ Len(LeftByBullets) > 0) =>
        LET B == BeforeMove IN
        /\ Len(centipede_segments) = Len(B)
        /\ \A i \in 2..Len(B) : centipede_segments[i] = B[i - 1]
        /\ centipede_segments[1].y = B[1].y
        /\ centipede_segments[1].x = B[1].x + (IF direction = "RIGHT" THEN 1 ELSE -1)
        /\ direction \in {"LEFT", "RIGHT"}

\* C13 witness: an update whose bullets removed a segment, whose head ran into
\* the wall, and which then moved a body of at least three segments.
C13_Witness ==
    /\ AfterUpdate
    /\ Removed = 1
    /\ Len(centipede_segments) >= 3
    /\ direction # prev.direction
    /\ \E i \in 2..Len(centipede_segments) :
          centipede_segments[i] # centipede_segments[1]

\* The last operation was a decision of the centipede agent on a centipede
\* with segments.
AfterCentipede == prev.op = "centipede" /\ Len(prev.centipede_segments) > 0

\* Bullets within one column of the head and above it, on entry of the last
\* decision of the centipede agent.
Qualifying ==
    {k \in 1..Len(prev.bullets) :
        /\ prev.bullets[k].x - prev.centipede_segments[1].x \in {-1, 0, 1}
        /\ prev.bullets[k].y < prev.centipede_segments[1].y}

\* C14: CentipedeAgent.make_decision with a non-empty centipede reverses
\* direction at most once per call: the direction is reversed iff (cooldown
\* <= 0 on entry and some bullet qualifies) or (evasive, roll < 0.1 and the
\* cooldown after this call's decrement <= 0), and is unchanged otherwise.
C14_OneReversal ==
    AfterCentipede =>
        LET threat == prev.cooldown <= 0 /\ Qualifying # {}
            afterLoop == IF threat THEN CooldownTicks ELSE prev.cooldown
            decremented == IF afterLoop > 0 THEN afterLoop - 1 ELSE 0
            random == centipede_strategy = "evasive" /\ prev.low /\ decremented <= 0
            opposite == IF prev.direction = "RIGHT" THEN "LEFT" ELSE "RIGHT"
        IN  /\ (threat \/ random) => direction = opposite
            /\ ~(threat \/ random) => direction = prev.direction
            /\ (centipede_strategy = "passive" /\ Qualifying = {}) =>
                  direction = prev.direction

\* C14 witness: two bullets qualified at once and the direction is reversed.
C14_Witness ==
    /\ AfterCentipede
    /\ prev.cooldown <= 0
    /\ Cardinality(Qualifying) >= 2
    /\ direction # prev.direction

\* C15: with the predictive strategy the target chosen in a tick is the cell
\* the head occupies after that tick's update, whenever the centipede agent
\* did not reverse and the head was not destroyed in that tick.
C15_PredictionExact ==
    (/\ AfterUpdate
     /\ shooter_strategy = "predictive"
     /\ ~hist.turned
     /\ 1 \in BulletOutcome(prev.bullets, prev.centipede_segments).alive) =>
        hist.target = centipede_segments[1]

\* C16: the cooldown is always in 0..3 and drops by 1 per tick down to 0, and
\* when the centipede agent reverses in tick t it reverses neither in tick
\* t+1 nor in tick t+2.
C16_ReversalSpacing ==
    /\ direction_change_cooldown \in 0..CooldownTicks
    /\ (AfterCentipede /\ ~hist.turned) =>
          direction_change_cooldown = (IF prev.cooldown > 0 THEN prev.cooldown - 1 ELSE 0)
    /\ (AfterCentipede /\ hist.turned) => prev.since >= 2

\* C17: with a passive centipede and either shooter strategy on the default
\* 20 x 20 board, every run of the driver reaches game_over.
C17_PassiveTerminates == <>game_over

\* C17 witness: a passive game on the 20 x 20 board has ended and been reported.
C17_Witness ==
    /\ width = DefaultWidth /\ height = DefaultHeight
    /\ centipede_strategy = "passive"
    /\ game_over
    /\ pc = "done"

\* The last update's head ran into the wall it was heading for.
LastEdgeHit ==
    \/ LeftByBullets[1].x = 0 /\ prev.direction = "LEFT"
    \/ LeftByBullets[1].x = Width - 1 /\ prev.direction = "RIGHT"

\* C18: all centipede segments share one row, and that row never decreases:
\* an update with an edge reversal raises y by exactly 1, every other update
\* and every agent decision leaves it unchanged.
C18_OneRow ==
    /\ \A i, j \in 1..Len(centipede_segments) :
          centipede_segments[i].y = centipede_segments[j].y
    /\ (AfterUpdate /\ Len(centipede_segments) > 0) =>
          centipede_segments[1].y =
              prev.centipede_segments[1].y + (IF LastEdgeHit THEN 1 ELSE 0)
    /\ (prev.op \in {"shooter", "centipede", "report"} /\ Len(centipede_segments) > 0) =>
          centipede_segments[1].y = prev.centipede_segments[1].y

\* C18 witness: an edge reversal lowered a body of several segments to a row
\* below the second.
C18_Witness ==
    /\ AfterUpdate
    /\ Len(centipede_segments) >= 2
    /\ LastEdgeHit
    /\ centipede_segments[1].y >= 2
    /\ centipede_segments[1].y = prev.centipede_segments[1].y + 1

\* C19: no segment is destroyed in row height-2 or below: every mushroom has
\* y <= height-3, an update that removes a segment found the centipede in
\* row height-3 or above, and once the centipede is in row height-2 or below
\* the number of segments no longer decreases.
C19_NoLowKills ==
    /\ \A i \in 1..Len(mushrooms) : mushrooms[i].y <= Height - 3
    /\ (AfterUpdate /\ Removed > 0) =>
          \A i \in 1..Len(prev.centipede_segments) :
              prev.centipede_segments[i].y <= Height - 3
    /\ (/\ prev.op # "init"
        /\ Len(prev.centipede_segments) > 0
        /\ prev.centipede_segments[1].y >= Height - 2) =>
          Len(centipede_segments) = Len(prev.centipede_segments)

\* C19 witness: an update found a new bullet on the cell of a segment in row
\* height-2 and removed nothing.
C19_Witness ==
    /\ AfterUpdate
    /\ Removed = 0
    /\ \E k \in 1..Len(prev.bullets) : \E i \in 1..Len(prev.centipede_segments) :
          /\ prev.bullets[k] = prev.centipede_segments[i]
          /\ prev.bullets[k].y = Height - 2

\* C20: after every update the bullets are in strictly increasing y within
\* 0..height-3, so at most height-2 exist; a shooter decision adds at most
\* one bullet and no other operation adds any.
C20_BulletsBounded ==
    /\ AfterUpdate =>
          /\ \A i, j \in 1..Len(bullets) : i < j => bullets[i].y < bullets[j].y
          /\ \A i \in 1..Len(bullets) : bullets[i].y \in 0..(Height - 3)
          /\ Len(bullets) <= Height - 2
    /\ prev.op = "shooter" => Len(bullets) <= Len(prev.bullets) + 1
    /\ prev.op \in {"centipede", "update", "report"} => Len(bullets) <= Len(prev.bullets)

\* C20 witness: after an update every row from 0 to height-3 holds a bullet.
C20_Witness ==
    /\ AfterUpdate
    /\ Len(bullets) = Height - 2
    /\ bullets[1].y = 0

====
